---- MODULE Spec2Model ----
(***************************************************************************)
(* Offline export of a song to an audio file: H2Core::DiskWriterDriver     *)
(* (core/IO/DiskWriterDriver.cpp).  The driver object, the caller that     *)
(* drives init()/connect()/disconnect(), and the render threads created by *)
(* connect() (diskWriterDriver_thread) are modelled as one state machine.  *)
(***************************************************************************)
EXTENDS Integers, Sequences, FiniteSets, TLC

(***************************************************************************)
(* Bounds of the model.                                                    *)
(***************************************************************************)
MaxConnects == 2
\* how many times connect() is called, i.e. how many render threads exist
MaxBufferSize == 2
\* init() is called with nBufferSize in 0..MaxBufferSize
MaxColumns == 2
\* number of columns (pattern groups) of the song
MaxRetries == 1
\* how many times in a row the process callback may answer "not ready"
MaxSpins == 2
\* columns of the longest song whose progress events are followed
MaxGroups == 7
\* how many chunks of length 0 one render thread may request (with a buffer
\* size of 0 the thread never leaves its loop)
MaxActions == 3
\* how many MIDI actions handleAction is called with
MaxInstruments == 2
\* instruments of the longest instrument list

(***************************************************************************)
(* Program constants.                                                      *)
(***************************************************************************)
MAX_NOTES == 3
\* length in ticks of a column without patterns (192 in the program, scaled
\* down here so that a column is a few frames long)
FORMAT_WAV == 65536
FORMAT_AIFF == 131072
FORMAT_FLAC == 1507328
FORMAT_PCM_S8 == 1
FORMAT_PCM_16 == 2
FORMAT_PCM_24 == 3
FORMAT_PCM_32 == 4
FORMAT_PCM_U8 == 5
FORMAT_OGG_VORBIS == 2097248
\* the OGG container with the Vorbis encoding, 0x200000 | 0x0060

Threads == 1..MaxConnects

VARIABLES
    m_nSampleRate,   \* DiskWriterDriver::m_nSampleRate
    m_nSampleDepth,  \* DiskWriterDriver::m_nSampleDepth
    m_sFilename,     \* DiskWriterDriver::m_sFilename, a sequence of characters
    m_nBufferSize,   \* DiskWriterDriver::m_nBufferSize
    m_pOut_L,        \* DiskWriterDriver::m_pOut_L: 0 is nullptr, k the array of the k-th connect()
    m_pOut_R,        \* DiskWriterDriver::m_pOut_R
    heap_L,          \* the arrays new float[m_nBufferSize] of connect(), left channel
    heap_R,          \* the same, right channel
    nThreads,        \* number of threads pthread_create has started
    engineState,     \* AudioEngine::getState()
    transportColumn, \* the column the transport is located at
    m_fBpm,            \* Song::getBpm()
    m_nLastBpmChangeCCParameter, \* MidiActionManager::m_nLastBpmChangeCCParameter
    nInstruments,    \* Song::getInstrumentList()->size()
    nSelectedInstrumentNumber,   \* Hydrogen::getSelectedInstrumentNumber()
    handled,         \* the calls of MidiActionManager::handleAction and the last of them
    song,            \* Song::getPatternGroupVector() with the tempo of each column
    resolution,      \* Song::getResolution()
    thread           \* the locals and the observable effects of each render thread

vars == << m_nSampleRate, m_nSampleDepth, m_sFilename, m_nBufferSize, m_pOut_L,
           m_pOut_R, heap_L, heap_R, nThreads, engineState, transportColumn,
           m_fBpm, m_nLastBpmChangeCCParameter, nInstruments, nSelectedInstrumentNumber,
           handled, song, resolution, thread >>

driverVars == << m_nSampleRate, m_nSampleDepth, m_sFilename >>
songVars == << song, resolution >>
transportVars == << transportColumn >>
tempoVars == << m_fBpm, m_nLastBpmChangeCCParameter >>
instrumentVars == << nInstruments, nSelectedInstrumentNumber >>
midiVars == << tempoVars, instrumentVars, handled >>

(***************************************************************************)
(* Format selection, lines 72-104 of diskWriterDriver_thread.              *)
(***************************************************************************)
endsWith(s, suffix) ==
    /\ Len(s) >= Len(suffix)
    /\ SubSeq(s, Len(s) - Len(suffix) + 1, Len(s)) = suffix

isAiff(f) == endsWith(f, <<".", "a", "i", "f", "f">>) \/ endsWith(f, <<".", "A", "I", "F", "F">>)
isFlac(f) == endsWith(f, <<".", "f", "l", "a", "c">>) \/ endsWith(f, <<".", "F", "L", "A", "C">>)
isWav(f) == endsWith(f, <<".", "w", "a", "v">>) \/ endsWith(f, <<".", "W", "A", "V">>)
isOgg(f) == endsWith(f, <<".", "o", "g", "g">>) \/ endsWith(f, <<".", "O", "G", "G">>)

\* int sfformat = 0x010000; then the two extension tests, in order
sfformat(f) ==
    LET s0 == FORMAT_WAV
        s1 == IF isAiff(f) THEN FORMAT_AIFF ELSE s0
        s2 == IF isFlac(f) THEN FORMAT_FLAC ELSE s1
    IN  s2

\* depth tests that take 24 bits for 32
bitsWithout24(f, depth) ==
    LET b0 == FORMAT_PCM_16
        b1 == IF depth = 8 /\ isAiff(f) THEN FORMAT_PCM_S8 ELSE b0
        b2 == IF depth = 8 /\ isWav(f) THEN FORMAT_PCM_U8 ELSE b1
        b3 == IF depth = 16 THEN FORMAT_PCM_16 ELSE b2
        b4 == IF depth = 24 THEN FORMAT_PCM_32 ELSE b3
        b5 == IF depth = 32 THEN FORMAT_PCM_32 ELSE b4
    IN  b5

\* int bits = 0x0002; then the five depth tests, in order
bits(f, depth) ==
    LET b0 == FORMAT_PCM_16
        b1 == IF depth = 8 /\ isAiff(f) THEN FORMAT_PCM_S8 ELSE b0
        b2 == IF depth = 8 /\ isWav(f) THEN FORMAT_PCM_U8 ELSE b1
        b3 == IF depth = 16 THEN FORMAT_PCM_16 ELSE b2
        b4 == IF depth = 24 THEN FORMAT_PCM_24 ELSE b3
        b5 == IF depth = 32 THEN FORMAT_PCM_32 ELSE b4
    IN  b5

\* a format without the test of lines 102-104
soundInfoFormatOfDepth(f, depth) == sfformat(f) + bits(f, depth)

\* soundInfo.format: sfformat|bits (the two occupy disjoint bits), replaced
\* by OGG/Vorbis for an .ogg file name
soundInfoFormat(f, depth) ==
    IF isOgg(f) THEN FORMAT_OGG_VORBIS ELSE sfformat(f) + bits(f, depth)

\* libsndfile's capability check of a (container, encoding) pair, 2 channels
sf_format_check(format) ==
    LET major == (format \div 65536) * 65536
        sub == format % 65536
    IN  \/ major = FORMAT_WAV /\ sub \in {FORMAT_PCM_U8, FORMAT_PCM_16, FORMAT_PCM_24, FORMAT_PCM_32}
        \/ major = FORMAT_AIFF /\ sub \in {FORMAT_PCM_S8, FORMAT_PCM_U8, FORMAT_PCM_16, FORMAT_PCM_24, FORMAT_PCM_32}
        \/ major = FORMAT_FLAC /\ sub \in {FORMAT_PCM_S8, FORMAT_PCM_16, FORMAT_PCM_24}
        \/ format = FORMAT_OGG_VORBIS

(***************************************************************************)
(* Length of a column in frames, lines 165-177.                            *)
(***************************************************************************)
SetMax(S) == CHOOSE x \in S : \A y \in S : y <= x

\* PatternList::longest_pattern_length of a column holding patterns
longest_pattern_length(column) == SetMax(column.patterns)

\* a column without patterns taken to be of length 0
nPatternSizeOrZero(column) ==
    IF Cardinality(column.patterns) # 0 THEN longest_pattern_length(column) ELSE 0

nPatternSize(column) ==
    IF Cardinality(column.patterns) # 0 THEN longest_pattern_length(column) ELSE MAX_NOTES

\* the tempo of the first column, whatever the position
getBpmAtFirstColumn(sng, patternPosition) == sng[1].bpm

\* AudioEngine::getBpmAtColumn
getBpmAtColumn(sng, patternPosition) == sng[patternPosition + 1].bpm

\* A positive float is << m, e >>, the number m * 2^e with a mantissa m of
\* at most MantissaBits bits: m < 2^MantissaBits.  A number that needs
\* rounding has a mantissa of exactly MantissaBits bits.
MantissaBits == 24

\* the least mantissa, 2^(MantissaBits - 1)
MantissaLow == 2^(MantissaBits - 1)

\* the quotient q and remainder r of a division by d < 2^(MantissaBits - 1),
\* continued by 8, 4, 2 or 1 bits at a time until the quotient has
\* MantissaBits bits or the division has come out even
RECURSIVE quotientBits(_, _, _, _)
quotientBits(q, r, d, e) ==
    IF q >= MantissaLow \/ r = 0 THEN << q, r, e >>
    ELSE LET n == IF q * 256 < MantissaLow THEN 8
                  ELSE IF q * 16 < MantissaLow THEN 4
                  ELSE IF q * 4 < MantissaLow THEN 2
                  ELSE 1
             scaled == r * 2^n
         IN  quotientBits(q * 2^n + scaled \div d, scaled % d, d, e - n)

\* round to nearest, ties to even: m with the fraction r / d behind it
roundedMantissa(m, r, d) ==
    IF 2 * r > d \/ (2 * r = d /\ m % 2 = 1) THEN m + 1 ELSE m

\* a rounded mantissa that reached 2^MantissaBits moves to the next exponent
floatOf(m, e) ==
    IF m = 2 * MantissaLow THEN << MantissaLow, e + 1 >> ELSE << m, e >>

\* the float nearest to n / d, for 0 < n and n / d < 2^MantissaBits
floatOfQuotient(n, d) ==
    LET x == quotientBits(n \div d, n % d, d, 0)
    IN  floatOf(roundedMantissa(x[1], x[2], d), x[3])

\* the bits a product p has beyond MantissaBits
RECURSIVE excessBits(_)
excessBits(p) == IF p < 2 * MantissaLow THEN 0 ELSE 1 + excessBits(p \div 2)

\* float * int: the exact product, rounded to a float
floatTimes(f, k) ==
    LET p == f[1] * k
        s == excessBits(p)
    IN  floatOf(roundedMantissa(p \div 2^s, p % 2^s, 2^s), f[2] + s)

\* conversion of a float to unsigned: the fraction is cut
truncated(f) ==
    IF f[2] >= 0 THEN f[1] * 2^(f[2])
    ELSE IF f[2] <= 0 - MantissaBits THEN 0
    ELSE f[1] \div 2^(0 - f[2])

\* AudioEngine::computeTickSize: frames per tick, nSampleRate * 60 / fBpm /
\* nResolution, returned as a float
computeTickSize(nSampleRate, fBpm, nResolution) ==
    floatOfQuotient(nSampleRate * 60, fBpm * nResolution)

\* unsigned patternLengthInFrames = fTicksize * nPatternSize: a float
\* product, then the truncation
framesOf(fTicksize, patternSize) == truncated(floatTimes(fTicksize, patternSize))

patternLengthInFramesAt(sng, res, rate, patternPosition) ==
    framesOf(computeTickSize(rate, getBpmAtColumn(sng, patternPosition), res),
             nPatternSize(sng[patternPosition + 1]))

\* a percentage without the + 1 of line 228
fPercentOfPosition(patternPosition, nColumns) == (patternPosition * 100) \div nColumns

\* a percentage rounded to the nearest integer instead of cut
fPercentRounded(patternPosition, nColumns) ==
    (200 * (patternPosition + 1) + nColumns) \div (2 * nColumns)

\* ( int )( ( float )(patternPosition + 1) / ( float )nColumns * 100.0 ):
\* the conversion to int cuts the fraction.  The float quotient and product
\* give the same integer as the exact quotient for every nColumns < 100
\* (the first difference is 53 of 100 columns, which yields 52).
fPercent(patternPosition, nColumns) == ((patternPosition + 1) * 100) \div nColumns

(***************************************************************************)
(* Initial state: a constructed driver (lines 244-252), no thread yet.     *)
(***************************************************************************)
NoThread ==
    [ pc |-> "none",              \* where the thread stands in diskWriterDriver_thread
      m_file |-> "none",          \* the SNDFILE* of sf_open: none, null, open, closed
      format |-> 0,               \* soundInfo.format, once computed
      pData |-> "none",           \* the interleaved array: none, live, freed
      pDataSize |-> 0,            \* its length in floats
      pData_L |-> 0,              \* the thread's copy of m_pOut_L
      pData_R |-> 0,              \* the thread's copy of m_pOut_R
      nColumns |-> 0,
      patternPosition |-> 0,
      patternLengthInFrames |-> 0,
      frameNumber |-> 0,
      usedBuffer |-> 0,
      L |-> << >>,                \* what the callback left in the left channel array
      R |-> << >>,                \* what the callback left in the right channel array
      out |-> << >>,              \* what the thread wrote to pData for the last chunk
      ret |-> 0,                  \* what the last m_processCallback returned
      nCalls |-> 0,               \* invocations of m_processCallback for the current chunk
      chunks |-> << >>,           \* <<column, offset, length>> of every chunk requested
      written |-> << >>,          \* <<column, offset, length>> of every sf_writef_float on an open file
      progress |-> << >>,         \* the values pushed as EVENT_PROGRESS
      shortWrite |-> FALSE,       \* "Error during sf_write_float" was logged
      access |-> "none" ]         \* what the last read of the channel arrays touched

Bpms == {60, 120}
\* the lengths in ticks of the patterns of a column: no pattern, one pattern
PatternSets == {{}, {1}}
\* the amplitudes the callback renders for a column (1 is full scale)
SampleSets == {{0}}
Columns == [patterns : PatternSets, bpm : Bpms, samples : SampleSets]
Songs == UNION {[1..n -> Columns] : n \in 0..MaxColumns}

\* the file names and sample depths of the exports of the model
RenderConfigs ==
    { [file |-> <<"a", ".", "w", "a", "v">>, depth |-> 16],
      [file |-> <<"a", ".", "f", "l", "a", "c">>, depth |-> 32] }

\* no MIDI action handled yet: line 100 of MidiAction.cpp, a song of one
\* instrument at tempo 120
noAction ==
    /\ m_fBpm = 120
    /\ m_nLastBpmChangeCCParameter = -1
    /\ nInstruments = 1
    /\ nSelectedInstrumentNumber = 0
    /\ handled = [n |-> 0, null |-> FALSE, type |-> "", invoked |-> << >>, result |-> FALSE]

Init ==
    /\ m_nSampleRate = 1
    /\ \E c \in RenderConfigs : m_sFilename = c.file /\ m_nSampleDepth = c.depth
    /\ m_nBufferSize = 0
    /\ m_pOut_L = 0
    /\ m_pOut_R = 0
    /\ heap_L = [k \in Threads |-> [state |-> "none", size |-> 0]]
    /\ heap_R = [k \in Threads |-> [state |-> "none", size |-> 0]]
    /\ nThreads = 0
    /\ engineState = "Ready"
    /\ song \in Songs
    /\ resolution = 1
    /\ transportColumn = 0
    /\ noAction
    /\ thread = [w \in Threads |-> NoThread]

(***************************************************************************)
(* The caller's operations on the driver, lines 261-301.                   *)
(***************************************************************************)
init(nBufferSize) ==
    /\ m_nBufferSize' = nBufferSize
    /\ UNCHANGED << driverVars, songVars, transportVars, midiVars, m_pOut_L, m_pOut_R, heap_L, heap_R,
                    nThreads, engineState, thread >>

\* connect(): two new arrays of m_nBufferSize floats, then pthread_create
connect ==
    /\ nThreads < MaxConnects
    /\ LET k == nThreads + 1
       IN  /\ heap_L' = [heap_L EXCEPT ![k] = [state |-> "live", size |-> m_nBufferSize]]
           /\ heap_R' = [heap_R EXCEPT ![k] = [state |-> "live", size |-> m_nBufferSize]]
           /\ m_pOut_L' = k
           /\ m_pOut_R' = k
           /\ nThreads' = k
           /\ thread' = [thread EXCEPT ![k].pc = "start"]
    /\ UNCHANGED << driverVars, songVars, transportVars, midiVars, m_nBufferSize, engineState >>

\* disconnect(): delete[] of both arrays (of nullptr: no effect), then nullptr
disconnect ==
    /\ heap_L' = IF m_pOut_L # 0 THEN [heap_L EXCEPT ![m_pOut_L].state = "freed"] ELSE heap_L
    /\ m_pOut_L' = 0
    /\ heap_R' = IF m_pOut_R # 0 THEN [heap_R EXCEPT ![m_pOut_R].state = "freed"] ELSE heap_R
    /\ m_pOut_R' = 0
    /\ UNCHANGED << driverVars, songVars, transportVars, midiVars, m_nBufferSize, nThreads, engineState, thread >>

(***************************************************************************)
(* diskWriterDriver_thread, lines 54-240, one action per step that reads   *)
(* or writes something another thread can see.                             *)
(***************************************************************************)
driverShared == << m_nBufferSize, m_pOut_L, m_pOut_R, heap_L, heap_R, nThreads >>

\* a thread that starts without the first EVENT_PROGRESS
threadStartSilent(w) ==
    /\ thread[w].pc = "start"
    /\ thread' = [thread EXCEPT ![w].pc = "play"]
    /\ UNCHANGED << driverVars, songVars, transportVars, midiVars, driverShared, engineState >>

\* line 59: EventQueue::push_event( EVENT_PROGRESS, 0 )
threadStart(w) ==
    /\ thread[w].pc = "start"
    /\ thread' = [thread EXCEPT ![w].progress = Append(@, 0), ![w].pc = "play"]
    /\ UNCHANGED << driverVars, songVars, transportVars, midiVars, driverShared, engineState >>

\* a thread that leaves the transport as it found it
threadPlaySkipped(w) ==
    /\ thread[w].pc = "play"
    /\ thread' = [thread EXCEPT ![w].pc = "format"]
    /\ UNCHANGED << driverVars, songVars, transportVars, midiVars, driverShared, engineState >>

\* line 66: pAudioEngine->play()
threadPlay(w) ==
    /\ thread[w].pc = "play"
    /\ engineState' = "Playing"
    /\ thread' = [thread EXCEPT ![w].pc = "format"]
    /\ UNCHANGED << driverVars, songVars, transportVars, midiVars, driverShared >>

\* a thread that goes on to sf_open whatever sf_format_check answers
threadFormatUnchecked(w) ==
    /\ thread[w].pc = "format"
    /\ thread' = [thread EXCEPT
          ![w].format = soundInfoFormat(m_sFilename, m_nSampleDepth),
          ![w].pc = "open"]
    /\ UNCHANGED << driverVars, songVars, transportVars, midiVars, driverShared, engineState >>

\* a thread that calls sf_open before it checks the format
threadFormatAfterOpen(w) ==
    /\ thread[w].pc = "format"
    /\ thread' = [thread EXCEPT
          ![w].format = soundInfoFormat(m_sFilename, m_nSampleDepth),
          ![w].m_file = "open",
          ![w].pc = IF sf_format_check(soundInfoFormat(m_sFilename, m_nSampleDepth))
                    THEN "alloc" ELSE "failed"]
    /\ UNCHANGED << driverVars, songVars, transportVars, midiVars, driverShared, engineState >>

\* lines 67-142: build soundInfo, return nullptr when sf_format_check fails
threadFormat(w) ==
    /\ thread[w].pc = "format"
    /\ thread' = [thread EXCEPT
          ![w].format = soundInfoFormat(m_sFilename, m_nSampleDepth),
          ![w].pc = IF sf_format_check(soundInfoFormat(m_sFilename, m_nSampleDepth))
                    THEN "open" ELSE "failed"]
    /\ UNCHANGED << driverVars, songVars, transportVars, midiVars, driverShared, engineState >>

\* line 145: sf_open, which yields a handle or NULL; the result is not tested
threadOpen(w) ==
    /\ thread[w].pc = "open"
    /\ \E handle \in {"open", "null"} :
          thread' = [thread EXCEPT ![w].m_file = handle, ![w].pc = "alloc"]
    /\ UNCHANGED << driverVars, songVars, transportVars, midiVars, driverShared, engineState >>

\* line 147: pData = new float[ m_nBufferSize * 2 ]
threadAlloc(w) ==
    /\ thread[w].pc = "alloc"
    /\ thread' = [thread EXCEPT ![w].pData = "live",
                                ![w].pDataSize = m_nBufferSize * 2,
                                ![w].pc = "readL"]
    /\ UNCHANGED << driverVars, songVars, transportVars, midiVars, driverShared, engineState >>

\* line 149: pData_L = pDriver->m_pOut_L
threadReadL(w) ==
    /\ thread[w].pc = "readL"
    /\ thread' = [thread EXCEPT ![w].pData_L = m_pOut_L, ![w].pc = "readR"]
    /\ UNCHANGED << driverVars, songVars, transportVars, midiVars, driverShared, engineState >>

\* lines 150-161: pData_R = pDriver->m_pOut_R, nColumns, patternPosition = 0
threadReadR(w) ==
    /\ thread[w].pc = "readR"
    /\ thread' = [thread EXCEPT ![w].pData_R = m_pOut_R,
                                ![w].nColumns = Len(song),
                                ![w].patternPosition = 0,
                                ![w].pc = "column"]
    /\ UNCHANGED << driverVars, songVars, transportVars, midiVars, driverShared, engineState >>

\* lines 162-179: the for test, then the length of the column in frames
threadColumn(w) ==
    /\ thread[w].pc = "column"
    /\ thread' =
          IF thread[w].patternPosition < thread[w].nColumns
          THEN [thread EXCEPT
                  ![w].patternLengthInFrames =
                      patternLengthInFramesAt(song, resolution, m_nSampleRate,
                                              thread[w].patternPosition),
                  ![w].frameNumber = 0,
                  ![w].pc = "while"]
          ELSE [thread EXCEPT ![w].pc = "cleanup"]
    /\ UNCHANGED << driverVars, songVars, transportVars, midiVars, driverShared, engineState >>

\* a while loop that is left as soon as one chunk of the column is written
threadWhileOnce(w) ==
    /\ thread[w].pc = "while"
    /\ \/ /\ thread[w].frameNumber = 0
          /\ thread[w].frameNumber < thread[w].patternLengthInFrames
          /\ m_nBufferSize = 0 => Len(thread[w].chunks) < MaxSpins
          /\ thread' = [thread EXCEPT ![w].usedBuffer = m_nBufferSize,
                                      ![w].pc = "lastRun"]
       \/ /\ ~(thread[w].frameNumber = 0
               /\ thread[w].frameNumber < thread[w].patternLengthInFrames)
          /\ thread' = [thread EXCEPT ![w].pc = "progress"]
    /\ UNCHANGED << driverVars, songVars, transportVars, midiVars, driverShared, engineState >>

\* lines 180-182: the while test, then usedBuffer = m_nBufferSize
threadWhile(w) ==
    /\ thread[w].pc = "while"
    /\ \/ /\ thread[w].frameNumber < thread[w].patternLengthInFrames
          /\ m_nBufferSize = 0 => Len(thread[w].chunks) < MaxSpins
          /\ thread' = [thread EXCEPT ![w].usedBuffer = m_nBufferSize,
                                      ![w].pc = "lastRun"]
       \/ /\ ~(thread[w].frameNumber < thread[w].patternLengthInFrames)
          /\ thread' = [thread EXCEPT ![w].pc = "progress"]
    /\ UNCHANGED << driverVars, songVars, transportVars, midiVars, driverShared, engineState >>

\* a loop that forgets the shorter last chunk
chunkLengthAlwaysFull(used, remaining, nBufferSize) == used

\* the chunk length of lines 186-189, from the two values of usedBuffer
chunkLength(used, remaining, nBufferSize) ==
    IF remaining < nBufferSize THEN remaining ELSE used

\* lines 186-191: the shorter last chunk, then frameNumber += usedBuffer
threadLastRun(w) ==
    /\ thread[w].pc = "lastRun"
    /\ LET t == thread[w]
           used == chunkLength(t.usedBuffer, t.patternLengthInFrames - t.frameNumber,
                               m_nBufferSize)
       IN  thread' = [thread EXCEPT ![w].usedBuffer = used,
                                    ![w].frameNumber = t.frameNumber + used,
                                    ![w].nCalls = 0,
                                    ![w].pc = "callback"]
    /\ UNCHANGED << driverVars, songVars, transportVars, midiVars, driverShared, engineState >>

\* the chunk a thread is working on: <<column, offset, length>>
currentChunk(t) == << t.patternPosition, t.frameNumber - t.usedBuffer, t.usedBuffer >>

\* a thread that calls m_processCallback once and goes on whatever it returns
threadCallbackOnce(w) ==
    /\ thread[w].pc = "callback"
    /\ LET t == thread[w]
           log == IF t.nCalls = 0 THEN Append(t.chunks, currentChunk(t)) ELSE t.chunks
       IN  \E status \in {0, 1} :
              \E l, r \in [1..t.usedBuffer -> song[t.patternPosition + 1].samples] :
                  thread' = [thread EXCEPT ![w].chunks = log,
                                           ![w].nCalls = t.nCalls + 1,
                                           ![w].ret = status,
                                           ![w].L = l,
                                           ![w].R = r,
                                           ![w].pc = "condition"]
    /\ UNCHANGED << driverVars, songVars, transportVars, midiVars, driverShared, engineState >>

\* a thread that asks for one frame less after the callback returned non-zero
threadCallbackShrinking(w) ==
    /\ thread[w].pc = "callback"
    /\ LET t == thread[w]
           log == IF t.nCalls = 0 THEN Append(t.chunks, currentChunk(t)) ELSE t.chunks
           less1 == IF t.usedBuffer > 1 THEN 1 ELSE 0
       IN  \/ \E l, r \in [1..t.usedBuffer -> song[t.patternPosition + 1].samples] :
                  thread' = [thread EXCEPT ![w].chunks = log,
                                           ![w].nCalls = t.nCalls + 1,
                                           ![w].ret = 0,
                                           ![w].L = l,
                                           ![w].R = r,
                                           ![w].pc = "condition"]
           \/ /\ t.nCalls < MaxRetries
              /\ thread' = [thread EXCEPT ![w].chunks = log,
                                          ![w].nCalls = t.nCalls + 1,
                                          ![w].usedBuffer = @ - less1,
                                          ![w].frameNumber = @ - less1,
                                          ![w].ret = 1]
    /\ UNCHANGED << driverVars, songVars, transportVars, midiVars, driverShared, engineState >>

\* lines 195-198: m_processCallback( usedBuffer, nullptr ) until it returns 0
threadCallback(w) ==
    /\ thread[w].pc = "callback"
    /\ LET t == thread[w]
           log == IF t.nCalls = 0 THEN Append(t.chunks, currentChunk(t)) ELSE t.chunks
       IN  \/ \* ret == 0: the arrays hold usedBuffer rendered frames
              \E l, r \in [1..t.usedBuffer -> song[t.patternPosition + 1].samples] :
                  thread' = [thread EXCEPT ![w].chunks = log,
                                           ![w].nCalls = t.nCalls + 1,
                                           ![w].ret = 0,
                                           ![w].L = l,
                                           ![w].R = r,
                                           ![w].pc = "condition"]
           \/ \* ret != 0
              /\ t.nCalls < MaxRetries
              /\ thread' = [thread EXCEPT ![w].chunks = log,
                                          ![w].nCalls = t.nCalls + 1,
                                          ![w].ret = 1]
    /\ UNCHANGED << driverVars, songVars, transportVars, midiVars, driverShared, engineState >>

\* what reading p[0..n-1] touches, p being array k of heap (0: nullptr)
readOf(heap, k, n) ==
    IF n = 0 THEN "none"
    ELSE IF k = 0 THEN "null"
    ELSE IF heap[k].state = "freed" THEN "released"
    ELSE IF n > heap[k].size THEN "overrun"
    ELSE "valid"

\* the worse of two accesses
worse(a, b) ==
    IF a \in {"null", "released", "overrun"} THEN a
    ELSE IF b \in {"null", "released", "overrun"} THEN b
    ELSE IF a = "valid" THEN a ELSE b

\* the float that is not a number: every comparison with it is false
NaN == 1000
greater(x, y) == x # NaN /\ y # NaN /\ x > y
less(x, y) == x # NaN /\ y # NaN /\ x < y

\* a conditioner that takes full scale itself for clipping and mutes it
clampedBelowFullScale(x) ==
    IF x = NaN \/ x >= 1 \/ x <= -1 THEN 0 ELSE x

\* lines 201-209 (and 211-219): if > 1 then 1, else if < -1 then -1, else the value
clamped(x) ==
    IF greater(x, 1) THEN 1
    ELSE IF less(x, -1) THEN -1
    ELSE x

\* lines 200-220: pData[i * 2] of the left, pData[i * 2 + 1] of the right
\* channel, for i < n (sequences count from 1, the arrays from 0)
interleaved(l, r, n) ==
    [j \in 1..(2 * n) |->
        IF (j - 1) % 2 = 0 THEN clamped(l[((j - 1) \div 2) + 1])
        ELSE clamped(r[((j - 1) \div 2) + 1])]

\* lines 200-220: clip pData_L[i], pData_R[i] into pData[2i], pData[2i+1].
\* Reading a released or too short array, or nullptr, is undefined: the
\* thread goes on with whatever it read, or the process dies.
threadCondition(w) ==
    /\ thread[w].pc = "condition"
    /\ LET t == thread[w]
           acc == worse(worse(readOf(heap_L, t.pData_L, t.usedBuffer),
                              readOf(heap_R, t.pData_R, t.usedBuffer)),
                        IF 2 * t.usedBuffer > t.pDataSize THEN "overrun" ELSE "none")
       IN  \/ thread' = [thread EXCEPT ![w].access = acc,
                                       ![w].out = interleaved(t.L, t.R, t.usedBuffer),
                                       ![w].pc = "write"]
           \/ /\ acc \in {"null", "released", "overrun"}
              /\ thread' = [thread EXCEPT ![w].access = acc, ![w].pc = "crashed"]
    /\ UNCHANGED << driverVars, songVars, transportVars, midiVars, driverShared, engineState >>

\* a thread that gives up the export at the first short write
threadWriteAborting(w) ==
    /\ thread[w].pc = "write"
    /\ LET t == thread[w]
       IN  \E res \in IF t.m_file = "open"
                      THEN {t.usedBuffer} \cup {n \in {t.usedBuffer - 1} : n >= 0}
                      ELSE {0} :
              thread' = [thread EXCEPT
                  ![w].written = IF t.m_file = "open"
                                 THEN Append(@, currentChunk(t)) ELSE @,
                  ![w].shortWrite = @ \/ (res # t.usedBuffer),
                  ![w].pc = IF res # t.usedBuffer THEN "cleanup" ELSE "while"]
    /\ UNCHANGED << driverVars, songVars, transportVars, midiVars, driverShared, engineState >>

\* lines 221-224: sf_writef_float; a result other than usedBuffer is logged
\* and the loop goes on.  On a NULL handle nothing is written (result 0).
threadWrite(w) ==
    /\ thread[w].pc = "write"
    /\ LET t == thread[w]
       IN  \E res \in IF t.m_file = "open"
                      THEN {t.usedBuffer} \cup {n \in {t.usedBuffer - 1} : n >= 0}
                      ELSE {0} :
              thread' = [thread EXCEPT
                  ![w].written = IF t.m_file = "open"
                                 THEN Append(@, currentChunk(t)) ELSE @,
                  ![w].shortWrite = @ \/ (res # t.usedBuffer),
                  ![w].pc = "while"]
    /\ UNCHANGED << driverVars, songVars, transportVars, midiVars, driverShared, engineState >>

\* lines 228-229: push the percentage, then ++patternPosition
threadProgress(w) ==
    /\ thread[w].pc = "progress"
    /\ thread' = [thread EXCEPT
          ![w].progress = Append(@, fPercent(thread[w].patternPosition, thread[w].nColumns)),
          ![w].patternPosition = @ + 1,
          ![w].pc = "column"]
    /\ UNCHANGED << driverVars, songVars, transportVars, midiVars, driverShared, engineState >>

\* a thread that exits without delete[] pData
threadCleanupLeaking(w) ==
    /\ thread[w].pc = "cleanup"
    /\ thread' = [thread EXCEPT
          ![w].m_file = IF @ = "open" THEN "closed" ELSE @,
          ![w].pc = "finished"]
    /\ UNCHANGED << driverVars, songVars, transportVars, midiVars, driverShared, engineState >>

\* lines 231-238: delete[] pData, sf_close( m_file ), pthread_exit
threadCleanup(w) ==
    /\ thread[w].pc = "cleanup"
    /\ thread' = [thread EXCEPT
          ![w].pData = "freed",
          ![w].m_file = IF @ = "open" THEN "closed" ELSE @,
          ![w].pc = "finished"]
    /\ UNCHANGED << driverVars, songVars, transportVars, midiVars, driverShared, engineState >>

\* a thread that died on an invalid access took the process with it
Alive == \A w \in Threads : thread[w].pc # "crashed"

(***************************************************************************)
(* One export: the caller sets the buffer size, calls connect() once and   *)
(* may call disconnect() at any moment, also while the thread renders.     *)
(* Every step needs the process to be alive.                               *)
(***************************************************************************)
Next ==
    \/ Alive /\ nThreads = 0 /\ \E nBufferSize \in 0..MaxBufferSize : init(nBufferSize)
    \/ Alive /\ nThreads = 0 /\ connect
    \/ Alive /\ disconnect
    \/ \E w \in Threads : Alive /\ threadStart(w)
    \/ \E w \in Threads : Alive /\ threadPlay(w)
    \/ \E w \in Threads : Alive /\ threadFormat(w)
    \/ \E w \in Threads : Alive /\ threadOpen(w)
    \/ \E w \in Threads : Alive /\ threadAlloc(w)
    \/ \E w \in Threads : Alive /\ threadReadL(w)
    \/ \E w \in Threads : Alive /\ threadReadR(w)
    \/ \E w \in Threads : Alive /\ threadColumn(w)
    \/ \E w \in Threads : Alive /\ threadWhile(w)
    \/ \E w \in Threads : Alive /\ threadLastRun(w)
    \/ \E w \in Threads : Alive /\ threadCallback(w)
    \/ \E w \in Threads : Alive /\ threadCondition(w)
    \/ \E w \in Threads : Alive /\ threadWrite(w)
    \/ \E w \in Threads : Alive /\ threadProgress(w)
    \/ \E w \in Threads : Alive /\ threadCleanup(w)

Spec == Init /\ [][Next]_vars

(***************************************************************************)
(* The same driver object connected again and again: nothing in connect()  *)
(* keeps a caller from doing so.                                           *)
(***************************************************************************)
InitReconnect ==
    /\ Init
    /\ Len(song) <= 1
    /\ \A i \in 1..Len(song) : song[i].bpm = 60 /\ song[i].patterns # {}

NextReconnect ==
    \/ Alive /\ nThreads = 0 /\ \E nBufferSize \in 0..MaxBufferSize : init(nBufferSize)
    \/ Alive /\ connect
    \/ Alive /\ disconnect
    \/ \E w \in Threads : Alive /\ threadStart(w)
    \/ \E w \in Threads : Alive /\ threadPlay(w)
    \/ \E w \in Threads : Alive /\ threadFormat(w)
    \/ \E w \in Threads : Alive /\ threadOpen(w)
    \/ \E w \in Threads : Alive /\ threadAlloc(w)
    \/ \E w \in Threads : Alive /\ threadReadL(w)
    \/ \E w \in Threads : Alive /\ threadReadR(w)
    \/ \E w \in Threads : Alive /\ threadColumn(w)
    \/ \E w \in Threads : Alive /\ threadWhile(w)
    \/ \E w \in Threads : Alive /\ threadLastRun(w)
    \/ \E w \in Threads : Alive /\ threadCallback(w)
    \/ \E w \in Threads : Alive /\ threadCondition(w)
    \/ \E w \in Threads : Alive /\ threadWrite(w)
    \/ \E w \in Threads : Alive /\ threadProgress(w)
    \/ \E w \in Threads : Alive /\ threadCleanup(w)

SpecReconnect == InitReconnect /\ [][NextReconnect]_vars

(***************************************************************************)
(* One export of a longer song: MaxGroups columns of one pattern each, so  *)
(* that the percentages of thirds, sixths and sevenths are pushed.         *)
(***************************************************************************)
ProgressSongs ==
    {[i \in 1..n |-> [patterns |-> {1}, bpm |-> 60, samples |-> {0}]] : n \in 0..MaxGroups}

InitProgress ==
    /\ m_nSampleRate = 1
    /\ m_sFilename = << "a", ".", "w", "a", "v" >>
    /\ m_nSampleDepth = 16
    /\ m_nBufferSize = 0
    /\ m_pOut_L = 0
    /\ m_pOut_R = 0
    /\ heap_L = [k \in Threads |-> [state |-> "none", size |-> 0]]
    /\ heap_R = [k \in Threads |-> [state |-> "none", size |-> 0]]
    /\ nThreads = 0
    /\ engineState = "Ready"
    /\ song \in ProgressSongs
    /\ resolution = 1
    /\ transportColumn = 0
    /\ noAction
    /\ thread = [w \in Threads |-> NoThread]

SpecProgress == InitProgress /\ [][Next]_vars

(***************************************************************************)
(* The format of an export by file name and sample depth: the driver is    *)
(* constructed with any of the names and depths below, connected, and the  *)
(* thread runs up to its sf_format_check.                                  *)
(***************************************************************************)
upperCase ==
    [c \in {".", "a", "c", "f", "g", "i", "l", "o", "u", "v", "w"} |->
        CASE c = "a" -> "A" [] c = "c" -> "C" [] c = "f" -> "F" [] c = "g" -> "G"
          [] c = "i" -> "I" [] c = "l" -> "L" [] c = "o" -> "O" [] c = "u" -> "U"
          [] c = "v" -> "V" [] c = "w" -> "W" [] OTHER -> c]

\* every upper/lower-case spelling of an extension
spellings(ext) ==
    {s \in [1..Len(ext) -> {".", "a", "c", "f", "g", "i", "l", "o", "u", "v", "w",
                            "A", "C", "F", "G", "I", "L", "O", "U", "V", "W"}] :
        \A i \in 1..Len(ext) : s[i] \in {ext[i], upperCase[ext[i]]}}

Extensions ==
    { << ".", "a", "i", "f", "f" >>, << ".", "f", "l", "a", "c" >>,
      << ".", "o", "g", "g" >>, << ".", "w", "a", "v" >>, << ".", "a", "u" >> }

\* a base name with each spelling of each extension, and one without extension
FormatFileNames ==
    {<< "a" >>} \cup {<< "a" >> \o s : s \in UNION {spellings(ext) : ext \in Extensions}}

\* the depths of the export dialog, and depths the code has no test for
FormatDepths == {0, 8, 12, 16, 24, 32, 64}

InitFormat ==
    /\ m_nSampleRate = 1
    /\ m_sFilename \in FormatFileNames
    /\ m_nSampleDepth \in FormatDepths
    /\ m_nBufferSize = 0
    /\ m_pOut_L = 0
    /\ m_pOut_R = 0
    /\ heap_L = [k \in Threads |-> [state |-> "none", size |-> 0]]
    /\ heap_R = [k \in Threads |-> [state |-> "none", size |-> 0]]
    /\ nThreads = 0
    /\ engineState = "Ready"
    /\ song = << >>
    /\ resolution = 1
    /\ transportColumn = 0
    /\ noAction
    /\ thread = [w \in Threads |-> NoThread]

NextFormat ==
    \/ Alive /\ nThreads = 0 /\ connect
    \/ \E w \in Threads : Alive /\ threadStart(w)
    \/ \E w \in Threads : Alive /\ threadPlay(w)
    \/ \E w \in Threads : Alive /\ threadFormat(w)

SpecFormat == InitFormat /\ [][NextFormat]_vars

(***************************************************************************)
(* One export of one column for which the callback renders amplitudes      *)
(* beyond full scale, and floats that are not numbers.                     *)
(***************************************************************************)
Amplitudes == (-2..2) \cup {NaN}

ConditionSongs ==
    {<< [patterns |-> ps, bpm |-> 60, samples |-> Amplitudes] >> : ps \in {{1}, {1, 2}}}

InitCondition ==
    /\ m_nSampleRate = 1
    /\ m_sFilename = << "a", ".", "w", "a", "v" >>
    /\ m_nSampleDepth = 16
    /\ m_nBufferSize = 0
    /\ m_pOut_L = 0
    /\ m_pOut_R = 0
    /\ heap_L = [k \in Threads |-> [state |-> "none", size |-> 0]]
    /\ heap_R = [k \in Threads |-> [state |-> "none", size |-> 0]]
    /\ nThreads = 0
    /\ engineState = "Ready"
    /\ song \in ConditionSongs
    /\ resolution = 1
    /\ transportColumn = 0
    /\ noAction
    /\ thread = [w \in Threads |-> NoThread]

SpecCondition == InitCondition /\ [][Next]_vars

(***************************************************************************)
(* The length in frames of a column at the sample rates, tempi and         *)
(* resolution of real exports: the thread runs up to the head of the while *)
(* loop of its first column.                                               *)
(***************************************************************************)
FrameRates == {44100, 48000, 96000}
FrameBpms == {43, 60, 86, 103, 120, 127, 130}
FrameTicks == {24, 48, 96}
FrameSongs ==
    {<< [patterns |-> {n}, bpm |-> b, samples |-> {0}] >> : n \in FrameTicks, b \in FrameBpms}

InitFrames ==
    /\ m_nSampleRate \in FrameRates
    /\ m_sFilename = << "a", ".", "w", "a", "v" >>
    /\ m_nSampleDepth = 16
    /\ m_nBufferSize = 0
    /\ m_pOut_L = 0
    /\ m_pOut_R = 0
    /\ heap_L = [k \in Threads |-> [state |-> "none", size |-> 0]]
    /\ heap_R = [k \in Threads |-> [state |-> "none", size |-> 0]]
    /\ nThreads = 0
    /\ engineState = "Ready"
    /\ song \in FrameSongs
    /\ resolution = 48
    /\ transportColumn = 0
    /\ noAction
    /\ thread = [w \in Threads |-> NoThread]

NextFrames ==
    \/ Alive /\ nThreads = 0 /\ \E nBufferSize \in 0..MaxBufferSize : init(nBufferSize)
    \/ Alive /\ nThreads = 0 /\ connect
    \/ \E w \in Threads : Alive /\ threadStart(w)
    \/ \E w \in Threads : Alive /\ threadPlay(w)
    \/ \E w \in Threads : Alive /\ threadFormat(w)
    \/ \E w \in Threads : Alive /\ threadOpen(w)
    \/ \E w \in Threads : Alive /\ threadAlloc(w)
    \/ \E w \in Threads : Alive /\ threadReadL(w)
    \/ \E w \in Threads : Alive /\ threadReadR(w)
    \/ \E w \in Threads : Alive /\ threadColumn(w)

SpecFrames == InitFrames /\ [][NextFrames]_vars

(***************************************************************************)
(* The transport actions of MidiActionManager (MidiAction.cpp, lines       *)
(* 183-222), which a MIDI event may trigger at any moment of an export.    *)
(***************************************************************************)
\* Hydrogen::sequencer_play and Hydrogen::sequencer_stop
sequencer_play == engineState' = "Playing"
sequencer_stop == engineState' = "Ready"

\* CoreActionController::locateToColumn
locateToColumn(nColumn) == transportColumn' = nColumn

\* lines 183-188
play ==
    /\ IF engineState = "Ready" THEN sequencer_play ELSE UNCHANGED engineState
    /\ UNCHANGED transportColumn

\* lines 190-193
pause ==
    /\ sequencer_stop
    /\ UNCHANGED transportColumn

\* lines 195-199
stop ==
    /\ sequencer_stop
    /\ locateToColumn(0)

\* a toggle that relocates to column 0 whenever it stops the transport
play_stop_pause_toggleRelocating(sActionString) ==
    CASE engineState = "Ready" ->
            sequencer_play /\ UNCHANGED transportColumn
      [] engineState = "Playing" ->
            /\ locateToColumn(0)
            /\ sequencer_stop
      [] OTHER -> UNCHANGED << engineState, transportColumn >>

\* lines 201-222
play_stop_pause_toggle(sActionString) ==
    CASE engineState = "Ready" ->
            sequencer_play /\ UNCHANGED transportColumn
      [] engineState = "Playing" ->
            /\ IF sActionString = "PLAY/STOP_TOGGLE"
               THEN locateToColumn(0) ELSE UNCHANGED transportColumn
            /\ sequencer_stop
      [] OTHER -> UNCHANGED << engineState, transportColumn >>

\* Action::Action, lines 70-76: the parameters and the value are "0"
Action(typeString) == [m_sType |-> typeString, m_sParameter1 |-> "0", m_sValue |-> "0"]

\* QString::toInt(&ok, 10) on the strings of the model: the number a decimal
\* string spells, and 0 for a string that spells none
toInt(s) ==
    CASE s = "-1" -> -1
      [] s = "0" -> 0
      [] s = "1" -> 1
      [] s = "2" -> 2
      [] s = "3" -> 3
      [] s = "4" -> 4
      [] OTHER -> 0

\* Hydrogen::setBPM and Hydrogen::setSelectedInstrumentNumber
setBPM(fBPM) == m_fBpm' = fBPM
setSelectedInstrumentNumber(nInstrument) == nSelectedInstrumentNumber' = nInstrument

\* lines 378-391
select_instrument(pAction) ==
    LET nValue == toInt(pAction.m_sValue)
        nInstrumentNumber == IF nInstruments < nValue THEN nInstruments - 1
                             ELSE IF nValue < 0 THEN 0
                             ELSE nValue
    IN  /\ setSelectedInstrumentNumber(nInstrumentNumber)
        /\ UNCHANGED nInstruments

\* lines 713-743; the two conditions exclude each other, so that the second
\* if is an else of the first
bpm_cc_relative(pAction) ==
    LET mult == toInt(pAction.m_sParameter1)
        cc_param == toInt(pAction.m_sValue)
        last == IF m_nLastBpmChangeCCParameter = -1 THEN cc_param
                ELSE m_nLastBpmChangeCCParameter
    IN  /\ IF last >= cc_param /\ m_fBpm < 300 THEN setBPM(m_fBpm - 1 * mult)
           ELSE IF last < cc_param /\ m_fBpm > 40 THEN setBPM(m_fBpm + 1 * mult)
           ELSE UNCHANGED m_fBpm
        /\ m_nLastBpmChangeCCParameter' = cc_param

\* the action types a MIDI event may stop or start the transport with, lines 101-105
TransportActions == {"PLAY", "PLAY/STOP_TOGGLE", "PLAY/PAUSE_TOGGLE", "STOP", "PAUSE"}

\* lines 101-149: the handler of each action type
actionMap ==
    "PLAY" :> "play" @@
    "PLAY/STOP_TOGGLE" :> "play_stop_pause_toggle" @@
    "PLAY/PAUSE_TOGGLE" :> "play_stop_pause_toggle" @@
    "STOP" :> "stop" @@
    "PAUSE" :> "pause" @@
    "RECORD_READY" :> "record_ready" @@
    "RECORD/STROBE_TOGGLE" :> "record_strobe_toggle" @@
    "RECORD_STROBE" :> "record_strobe" @@
    "RECORD_EXIT" :> "record_exit" @@
    "MUTE" :> "mute" @@
    "UNMUTE" :> "unmute" @@
    "MUTE_TOGGLE" :> "mute_toggle" @@
    "STRIP_MUTE_TOGGLE" :> "strip_mute_toggle" @@
    "STRIP_SOLO_TOGGLE" :> "strip_solo_toggle" @@
    ">>_NEXT_BAR" :> "next_bar" @@
    "<<_PREVIOUS_BAR" :> "previous_bar" @@
    "BPM_INCR" :> "bpm_increase" @@
    "BPM_DECR" :> "bpm_decrease" @@
    "BPM_CC_RELATIVE" :> "bpm_cc_relative" @@
    "BPM_FINE_CC_RELATIVE" :> "bpm_fine_cc_relative" @@
    "MASTER_VOLUME_RELATIVE" :> "master_volume_relative" @@
    "MASTER_VOLUME_ABSOLUTE" :> "master_volume_absolute" @@
    "STRIP_VOLUME_RELATIVE" :> "strip_volume_relative" @@
    "STRIP_VOLUME_ABSOLUTE" :> "strip_volume_absolute" @@
    "EFFECT_LEVEL_ABSOLUTE" :> "effect_level_absolute" @@
    "EFFECT_LEVEL_RELATIVE" :> "effect_level_relative" @@
    "GAIN_LEVEL_ABSOLUTE" :> "gain_level_absolute" @@
    "PITCH_LEVEL_ABSOLUTE" :> "pitch_level_absolute" @@
    "SELECT_NEXT_PATTERN" :> "select_next_pattern" @@
    "SELECT_ONLY_NEXT_PATTERN" :> "select_only_next_pattern" @@
    "SELECT_NEXT_PATTERN_CC_ABSOLUTE" :> "select_next_pattern_cc_absolute" @@
    "SELECT_NEXT_PATTERN_RELATIVE" :> "select_next_pattern_relative" @@
    "SELECT_AND_PLAY_PATTERN" :> "select_and_play_pattern" @@
    "PAN_RELATIVE" :> "pan_relative" @@
    "PAN_ABSOLUTE" :> "pan_absolute" @@
    "FILTER_CUTOFF_LEVEL_ABSOLUTE" :> "filter_cutoff_level_absolute" @@
    "BEATCOUNTER" :> "beatcounter" @@
    "TAP_TEMPO" :> "tap_tempo" @@
    "PLAYLIST_SONG" :> "playlist_song" @@
    "PLAYLIST_NEXT_SONG" :> "playlist_next_song" @@
    "PLAYLIST_PREV_SONG" :> "playlist_previous_song" @@
    "TOGGLE_METRONOME" :> "toggle_metronome" @@
    "SELECT_INSTRUMENT" :> "select_instrument" @@
    "UNDO_ACTION" :> "undo_action" @@
    "REDO_ACTION" :> "redo_action"

\* the call (this->*action)(pAction, pHydrogen) of line 914, for the handlers
\* the MIDI events of the model are bound to
invoke(action, pAction) ==
    CASE action = "play" -> play /\ UNCHANGED << tempoVars, instrumentVars >>
      [] action = "play_stop_pause_toggle" ->
            play_stop_pause_toggle(pAction.m_sType) /\ UNCHANGED << tempoVars, instrumentVars >>
      [] action = "stop" -> stop /\ UNCHANGED << tempoVars, instrumentVars >>
      [] action = "pause" -> pause /\ UNCHANGED << tempoVars, instrumentVars >>
      [] action = "bpm_cc_relative" ->
            bpm_cc_relative(pAction) /\ UNCHANGED << engineState, transportVars, instrumentVars >>
      [] action = "select_instrument" ->
            select_instrument(pAction) /\ UNCHANGED << engineState, transportVars, tempoVars >>
      [] OTHER -> FALSE

\* the value the handlers return: true, lines 187, 192, 198, 221, 390 and 742
returned(action) == TRUE

\* a manager that answers true also for an action type it does not know
handleActionAnswering(pAction) ==
    /\ handled.n < MaxActions
    /\ IF pAction = << >>
       THEN /\ handled' = [n |-> handled.n + 1, null |-> TRUE, type |-> "",
                           invoked |-> << >>, result |-> FALSE]
            /\ UNCHANGED << engineState, transportVars, tempoVars, instrumentVars >>
       ELSE LET sActionString == pAction[1].m_sType
            IN  IF sActionString \in DOMAIN actionMap
                THEN LET action == actionMap[sActionString]
                     IN  /\ invoke(action, pAction[1])
                         /\ handled' = [n |-> handled.n + 1, null |-> FALSE,
                                        type |-> sActionString, invoked |-> << action >>,
                                        result |-> returned(action)]
                ELSE /\ handled' = [n |-> handled.n + 1, null |-> FALSE,
                                    type |-> sActionString, invoked |-> << >>,
                                    result |-> TRUE]
                     /\ UNCHANGED << engineState, transportVars, tempoVars, instrumentVars >>
    /\ UNCHANGED << driverVars, songVars, driverShared, thread >>

\* lines 898-918: pAction is << >> for nullptr, << a >> for a pointer to the
\* action a; look the action type up in actionMap, call its handler and
\* return what it returns, or return false
handleAction(pAction) ==
    /\ handled.n < MaxActions
    /\ IF pAction = << >>
       THEN /\ handled' = [n |-> handled.n + 1, null |-> TRUE, type |-> "",
                           invoked |-> << >>, result |-> FALSE]
            /\ UNCHANGED << engineState, transportVars, tempoVars, instrumentVars >>
       ELSE LET sActionString == pAction[1].m_sType
            IN  IF sActionString \in DOMAIN actionMap
                THEN LET action == actionMap[sActionString]
                     IN  /\ invoke(action, pAction[1])
                         /\ handled' = [n |-> handled.n + 1, null |-> FALSE,
                                        type |-> sActionString, invoked |-> << action >>,
                                        result |-> returned(action)]
                ELSE /\ handled' = [n |-> handled.n + 1, null |-> FALSE,
                                    type |-> sActionString, invoked |-> << >>,
                                    result |-> FALSE]
                     /\ UNCHANGED << engineState, transportVars, tempoVars, instrumentVars >>
    /\ UNCHANGED << driverVars, songVars, driverShared, thread >>

(***************************************************************************)
(* One export of a song of at most one column, with MIDI events arriving   *)
(* while the thread renders.                                               *)
(***************************************************************************)
InitTransport ==
    /\ m_nSampleRate = 1
    /\ m_sFilename = << "a", ".", "w", "a", "v" >>
    /\ m_nSampleDepth = 16
    /\ m_nBufferSize = 0
    /\ m_pOut_L = 0
    /\ m_pOut_R = 0
    /\ heap_L = [k \in Threads |-> [state |-> "none", size |-> 0]]
    /\ heap_R = [k \in Threads |-> [state |-> "none", size |-> 0]]
    /\ nThreads = 0
    /\ engineState = "Ready"
    /\ song \in {s \in Songs : Len(s) <= 1}
    /\ resolution = 1
    /\ transportColumn \in 0..MaxColumns
    /\ noAction
    /\ thread = [w \in Threads |-> NoThread]

NextTransport ==
    \/ Next
    \/ Alive /\ \E sActionString \in TransportActions :
                    handleAction(<< Action(sActionString) >>)

SpecTransport == InitTransport /\ [][NextTransport]_vars

(***************************************************************************)
(* One export of one column through a buffer of two frames, the callback   *)
(* rendering amplitudes within, at and beyond full scale.                  *)
(***************************************************************************)
InitClamp ==
    /\ m_nSampleRate = 1
    /\ m_sFilename = << "a", ".", "w", "a", "v" >>
    /\ m_nSampleDepth = 16
    /\ m_nBufferSize = 2
    /\ m_pOut_L = 0
    /\ m_pOut_R = 0
    /\ heap_L = [k \in Threads |-> [state |-> "none", size |-> 0]]
    /\ heap_R = [k \in Threads |-> [state |-> "none", size |-> 0]]
    /\ nThreads = 0
    /\ engineState = "Ready"
    /\ song \in ConditionSongs
    /\ resolution = 1
    /\ transportColumn = 0
    /\ noAction
    /\ thread = [w \in Threads |-> NoThread]

NextClamp ==
    \/ Alive /\ nThreads = 0 /\ connect
    \/ Alive /\ disconnect
    \/ \E w \in Threads : Alive /\ threadStart(w)
    \/ \E w \in Threads : Alive /\ threadPlay(w)
    \/ \E w \in Threads : Alive /\ threadFormat(w)
    \/ \E w \in Threads : Alive /\ threadOpen(w)
    \/ \E w \in Threads : Alive /\ threadAlloc(w)
    \/ \E w \in Threads : Alive /\ threadReadL(w)
    \/ \E w \in Threads : Alive /\ threadReadR(w)
    \/ \E w \in Threads : Alive /\ threadColumn(w)
    \/ \E w \in Threads : Alive /\ threadWhile(w)
    \/ \E w \in Threads : Alive /\ threadLastRun(w)
    \/ \E w \in Threads : Alive /\ threadCallback(w)
    \/ \E w \in Threads : Alive /\ threadCondition(w)
    \/ \E w \in Threads : Alive /\ threadWrite(w)
    \/ \E w \in Threads : Alive /\ threadProgress(w)
    \/ \E w \in Threads : Alive /\ threadCleanup(w)

SpecClamp == InitClamp /\ [][NextClamp]_vars

(***************************************************************************)
(* The MIDI action manager alone: any engine state, transport position,    *)
(* tempo at and near the limits 40 and 300, and instrument list; each step *)
(* handles one action, a null pointer or an action of unknown type.        *)
(***************************************************************************)
\* AudioEngine::State, as far as the handlers tell the states apart
EngineStates == {"Prepared", "Ready", "Playing"}

Tempi == {40, 41, 170, 299, 300}

\* the type, the first parameter and the value of the actions MIDI events
\* are bound to: "NOTE" and "" are no action types
MidiTypes == TransportActions \cup {"BPM_CC_RELATIVE", "SELECT_INSTRUMENT", "NOTE", ""}
Multipliers == {"1"}
Values == {"-1", "0", "1", "2", "3", "x"}
MidiActions == [m_sType : MidiTypes, m_sParameter1 : Multipliers, m_sValue : Values]

InitMidi ==
    /\ m_nSampleRate = 1
    /\ m_sFilename = << "a", ".", "w", "a", "v" >>
    /\ m_nSampleDepth = 16
    /\ m_nBufferSize = 0
    /\ m_pOut_L = 0
    /\ m_pOut_R = 0
    /\ heap_L = [k \in Threads |-> [state |-> "none", size |-> 0]]
    /\ heap_R = [k \in Threads |-> [state |-> "none", size |-> 0]]
    /\ nThreads = 0
    /\ engineState \in EngineStates
    /\ song = << >>
    /\ resolution = 1
    /\ transportColumn \in 0..MaxColumns
    /\ m_fBpm \in Tempi
    /\ m_nLastBpmChangeCCParameter = -1
    /\ nInstruments \in 0..MaxInstruments
    /\ nSelectedInstrumentNumber = 0
    /\ handled = [n |-> 0, null |-> FALSE, type |-> "", invoked |-> << >>, result |-> FALSE]
    /\ thread = [w \in Threads |-> NoThread]

NextMidi ==
    \/ handleAction(<< >>)
    \/ \E a \in MidiActions : handleAction(<< a >>)

SpecMidi == InitMidi /\ [][NextMidi]_vars

(***************************************************************************)
(* Properties.                                                             *)
(***************************************************************************)
RECURSIVE SumLength(_)
SumLength(cs) == IF cs = << >> THEN 0 ELSE Head(cs)[3] + SumLength(Tail(cs))

\* the chunks a thread requested for column c, in the order of the requests
chunksOf(t, c) == SelectSeq(t.chunks, LAMBDA ch : ch[1] = c)

\* the columns whose while loop the thread has left
completedColumns(t) ==
    {c \in 0..(Len(song) - 1) :
        c < t.patternPosition \/ (c = t.patternPosition /\ t.pc = "progress")}

framesForGroup(c) == patternLengthInFramesAt(song, resolution, m_nSampleRate, c)

FormatOk == sf_format_check(soundInfoFormat(m_sFilename, m_nSampleDepth))

\* C1: with a buffer size > 0, the chunks requested for a rendered group sum
\* to framesForGroup, and the last one is framesForGroup mod bufferSize, or
\* bufferSize when that remainder is 0.
C1_ChunksCoverGroup ==
    \A w \in Threads : \A c \in completedColumns(thread[w]) :
        m_nBufferSize > 0 =>
            LET cs == chunksOf(thread[w], c)
                frames == framesForGroup(c)
            IN  /\ SumLength(cs) = frames
                /\ frames > 0 =>
                      /\ cs # << >>
                      /\ cs[Len(cs)][3] = IF frames % m_nBufferSize = 0
                                          THEN m_nBufferSize
                                          ELSE frames % m_nBufferSize

\* a group of 3 frames rendered in chunks of 2 and 1
C1_Witness ==
    \E w \in Threads : \E c \in completedColumns(thread[w]) :
        /\ m_nBufferSize = 2
        /\ framesForGroup(c) = 3
        /\ Len(chunksOf(thread[w], c)) = 2

\* C2 (as claimed): every thread writes its chunks in strictly increasing
\* (group, offset) order.
C2_WritesStrictlyOrdered ==
    \A w \in Threads :
        LET wr == thread[w].written
        IN  \A i, j \in 1..Len(wr) :
               i < j => \/ wr[i][1] < wr[j][1]
                        \/ wr[i][1] = wr[j][1] /\ wr[i][2] < wr[j][2]

\* C3: when the format check fails, the thread opens no file, invokes no
\* callback and writes no chunk, then or later.
C3_FormatFailureOpensNothing ==
    \A w \in Threads :
        (thread[w].pc = "failed" \/ ~FormatOk) =>
            /\ thread[w].m_file = "none"
            /\ thread[w].nCalls = 0
            /\ thread[w].chunks = << >>
            /\ thread[w].written = << >>

C3_Witness == \E w \in Threads : thread[w].pc = "failed" /\ ~FormatOk

\* C4 (as claimed, for a render with a buffer size > 0): after a failed
\* sf_open no callback is invoked, no chunk is requested or written and no
\* per-group progress event is pushed.
C4_OpenFailureAborts ==
    \A w \in Threads :
        (thread[w].m_file = "null" /\ m_nBufferSize > 0) =>
            /\ thread[w].nCalls = 0
            /\ thread[w].chunks = << >>
            /\ Len(thread[w].progress) <= 1

\* C5 (as claimed): with a buffer size of 0 nothing starts: no progress
\* event, no transport start, no file opened, no callback, no chunk loop.
C5_InvalidConfigurationRejected ==
    m_nBufferSize <= 0 =>
        /\ engineState = "Ready"
        /\ \A w \in Threads :
              /\ thread[w].progress = << >>
              /\ thread[w].m_file = "none"
              /\ thread[w].nCalls = 0
              /\ thread[w].pc \notin {"while", "lastRun", "callback", "condition", "write"}

\* C6 (as claimed): when the format check has failed, the thread has pushed
\* no progress event and has not touched the transport.
C6_FormatErrorBeforeSideEffects ==
    \A w \in Threads :
        thread[w].pc = "failed" =>
            /\ thread[w].progress = << >>
            /\ engineState = "Ready"

\* C7 (as claimed): a thread never reads a channel array that disconnect()
\* has released.
C7_NoReadOfReleasedBuffer ==
    \A w \in Threads : thread[w].access # "released"

\* C8 (as claimed): at most one render thread is ever created for a driver.
C8_AtMostOneThread == nThreads <= 1

\* what a thread has emitted so far: progress events, callback requests,
\* writes
effects(t) == << t.progress, t.chunks, t.nCalls, t.written >>

\* C9 (as claimed): Finished and Failed are terminal: once a thread of the
\* session has reached either, no callback is invoked, nothing is written
\* and no progress event is pushed.
C9_TerminalStatesAreFinal ==
    [][ (\E w \in Threads : thread[w].pc \in {"finished", "failed"})
            => \A v \in Threads : effects(thread'[v]) = effects(thread[v]) ]_vars

\* the arrays of connect() are released
channelBuffersReleased ==
    \A k \in 1..nThreads : heap_L[k].state = "freed" /\ heap_R[k].state = "freed"

\* C10 (as claimed): at Finished all groups are processed, the sink is
\* closed and the channel arrays and the interleaved array are released.
C10_FinishedReleasesAllBuffers ==
    \A w \in Threads :
        thread[w].pc = "finished" =>
            /\ thread[w].patternPosition = Len(song)
            /\ thread[w].m_file # "open"
            /\ thread[w].pData = "freed"
            /\ channelBuffersReleased

\* C10 (amended): at Finished all groups are processed, the sink is closed
\* and the interleaved array is released; the channel arrays the driver
\* points to stay allocated until disconnect().
C10_FinishedReleasesOwnBuffer ==
    \A w \in Threads :
        thread[w].pc = "finished" =>
            /\ thread[w].patternPosition = Len(song)
            /\ thread[w].m_file # "open"
            /\ thread[w].pData = "freed"
            /\ m_pOut_L # 0 => heap_L[m_pOut_L].state = "live"
            /\ m_pOut_R # 0 => heap_R[m_pOut_R].state = "live"

\* a finished render of two groups, file closed, channel arrays still there
C10_Witness ==
    \E w \in Threads :
        /\ thread[w].pc = "finished"
        /\ Len(song) = 2
        /\ thread[w].m_file = "closed"
        /\ Len(thread[w].written) >= 2
        /\ m_pOut_L = w /\ heap_L[w].state = "live"


\* a render that has failed: the format check failed, or sf_open failed and
\* the thread has ended
renderFailed(t) ==
    t.pc = "failed" \/ (t.m_file = "null" /\ t.pc = "finished")

\* C11 (as claimed): when the render has failed, the channel arrays and the
\* interleaved array are released and the sink is not open.
C11_FailureReleasesAllBuffers ==
    \A w \in Threads :
        renderFailed(thread[w]) =>
            /\ thread[w].m_file # "open"
            /\ thread[w].pData # "live"
            /\ channelBuffersReleased

\* C11 (amended): when the render has failed, the sink is not open and the
\* thread holds no interleaved array; the channel arrays the driver points
\* to stay allocated until disconnect().
C11_FailureLeavesNoSinkOpen ==
    \A w \in Threads :
        renderFailed(thread[w]) =>
            /\ thread[w].m_file # "open"
            /\ thread[w].pData # "live"
            /\ m_pOut_L # 0 => heap_L[m_pOut_L].state = "live"
            /\ m_pOut_R # 0 => heap_R[m_pOut_R].state = "live"

\* a failed format check with the channel arrays of connect() still there
C11_Witness ==
    \E w \in Threads :
        /\ thread[w].pc = "failed"
        /\ thread[w].pData = "none"
        /\ m_pOut_L = w /\ heap_L[w].state = "live"
        /\ m_pOut_R = w /\ heap_R[w].state = "live"


\* the progress events a thread pushed after a column, in order
afterGroups(t) == IF t.progress = << >> THEN << >> ELSE Tail(t.progress)

\* C12 (as claimed): the event after the i-th of N columns carries
\* 100 * i / N rounded to the nearest integer.
C12_PercentIsRounded ==
    \A w \in Threads :
        \A i \in 1..Len(afterGroups(thread[w])) :
            afterGroups(thread[w])[i] = (200 * i + Len(song)) \div (2 * Len(song))

\* C12 (amended): the event after the i-th of N columns carries the integer
\* part of 100 * i / N: the largest p with p * N <= 100 * i.
C12_PercentIsTruncated ==
    \A w \in Threads :
        \A i \in 1..Len(afterGroups(thread[w])) :
            LET p == afterGroups(thread[w])[i]
            IN  /\ p * Len(song) <= 100 * i
                /\ 100 * i < (p + 1) * Len(song)

\* the second of three columns is done: 66, where rounding gives 67
C12_Witness ==
    \E w \in Threads :
        /\ Len(song) = 3
        /\ thread[w].progress = << 0, 33, 66 >>

\* C13: the percentages a thread pushes never decrease, lie in 0..100, and
\* the one pushed after the last column is 100.
C13_ProgressMonotoneEndsAt100 ==
    \A w \in Threads :
        LET p == thread[w].progress
        IN  /\ \A i \in 1..Len(p) : p[i] \in 0..100
            /\ \A i \in 1..(Len(p) - 1) : p[i] <= p[i + 1]
            /\ (Len(song) > 0 /\ Len(p) = Len(song) + 1) => p[Len(p)] = 100

\* a finished export of MaxGroups columns, its last event pushed
C13_Witness ==
    \E w \in Threads :
        /\ thread[w].pc = "finished"
        /\ Len(song) = MaxGroups
        /\ Len(thread[w].progress) = MaxGroups + 1
        /\ thread[w].progress[MaxGroups + 1] = 100

\* C14: a thread pushes one event 0 before it starts the transport and
\* before any callback, then one event per column it has finished; a thread
\* that finished N columns has pushed N + 1 events.
C14_OneEventPerGroupAfterInitialZero ==
    /\ engineState = "Playing" =>
          \E w \in Threads : thread[w].progress # << >> /\ thread[w].progress[1] = 0
    /\ \A w \in Threads :
          LET t == thread[w]
          IN  /\ t.pc \in {"none", "start"} => t.progress = << >>
              /\ (t.chunks # << >> \/ t.nCalls > 0) => t.progress # << >>
              /\ t.pc \notin {"none", "start"} =>
                    /\ t.progress # << >>
                    /\ t.progress[1] = 0
                    /\ Len(t.progress) = 1 + t.patternPosition
              /\ t.pc = "progress" =>
                    Cardinality(completedColumns(t)) = t.patternPosition + 1
              /\ t.pc # "progress" =>
                    Cardinality(completedColumns(t)) = t.patternPosition
              /\ (t.pc = "finished" /\ t.m_file # "none") =>
                    Len(t.progress) = Len(song) + 1

\* a finished export of two columns with its three events
C14_Witness ==
    \E w \in Threads :
        /\ thread[w].pc = "finished"
        /\ Len(song) = 2
        /\ thread[w].progress = << 0, 50, 100 >>


\* a file name with its upper-case letters replaced by the lower-case ones
lowerCase(f) ==
    [i \in 1..Len(f) |->
        IF \E c \in DOMAIN upperCase : upperCase[c] = f[i] /\ c # f[i]
        THEN CHOOSE c \in DOMAIN upperCase : upperCase[c] = f[i]
        ELSE f[i]]

\* container and encoding of a computed soundInfo.format
majorOf(format) == (format \div 65536) * 65536
subOf(format) == format % 65536

\* the thread has computed soundInfo.format
formatComputed(t) == t.pc \in {"open", "failed"}

\* C15 (as claimed): the container follows the extension whatever the case
\* of its letters: .aiff AIFF, .flac FLAC, .ogg OGG/Vorbis, all others WAV.
C15_ContainerByExtensionAnyCase ==
    \A w \in Threads :
        formatComputed(thread[w]) =>
            LET f == lowerCase(m_sFilename)
                format == thread[w].format
            IN  IF endsWith(f, << ".", "o", "g", "g" >>) THEN format = FORMAT_OGG_VORBIS
                ELSE IF endsWith(f, << ".", "f", "l", "a", "c" >>) THEN majorOf(format) = FORMAT_FLAC
                ELSE IF endsWith(f, << ".", "a", "i", "f", "f" >>) THEN majorOf(format) = FORMAT_AIFF
                ELSE majorOf(format) = FORMAT_WAV

\* C16 (as claimed): with depth 8 the encoding is signed 8 bit in an AIFF
\* container and unsigned 8 bit in every other container but OGG.
C16_Depth8IsUnsignedUnlessAiff ==
    \A w \in Threads :
        (formatComputed(thread[w]) /\ m_nSampleDepth = 8
            /\ thread[w].format # FORMAT_OGG_VORBIS) =>
            IF majorOf(thread[w].format) = FORMAT_AIFF
            THEN subOf(thread[w].format) = FORMAT_PCM_S8
            ELSE subOf(thread[w].format) = FORMAT_PCM_U8

\* C17: a file name that ends in .ogg gets OGG/Vorbis whatever the depth.
C17_OggIgnoresDepth ==
    \A w \in Threads :
        (formatComputed(thread[w]) /\ endsWith(m_sFilename, << ".", "o", "g", "g" >>)) =>
            thread[w].format = FORMAT_OGG_VORBIS

\* an .ogg export of depth 24 whose format is computed
C17_Witness ==
    \E w \in Threads :
        /\ formatComputed(thread[w])
        /\ m_sFilename = << "a", ".", "o", "g", "g" >>
        /\ m_nSampleDepth = 24
        /\ thread[w].format = FORMAT_OGG_VORBIS

\* C18: in every container but OGG, depth 16 gives signed 16 bit, 24 signed
\* 24 bit, 32 signed 32 bit, and a depth other than 8, 16, 24, 32 signed
\* 16 bit; .flac with depth 24 gives FLAC with signed 24 bit.
C18_EncodingByDepth ==
    \A w \in Threads :
        (formatComputed(thread[w]) /\ thread[w].format # FORMAT_OGG_VORBIS) =>
            /\ m_nSampleDepth = 16 => subOf(thread[w].format) = FORMAT_PCM_16
            /\ m_nSampleDepth = 24 => subOf(thread[w].format) = FORMAT_PCM_24
            /\ m_nSampleDepth = 32 => subOf(thread[w].format) = FORMAT_PCM_32
            /\ m_nSampleDepth \notin {8, 16, 24, 32} =>
                  subOf(thread[w].format) = FORMAT_PCM_16
            /\ (m_sFilename = << "a", ".", "f", "l", "a", "c" >> /\ m_nSampleDepth = 24) =>
                  thread[w].format = FORMAT_FLAC + FORMAT_PCM_24

\* a .flac export of depth 24 whose format is computed
C18_Witness ==
    \E w \in Threads :
        /\ formatComputed(thread[w])
        /\ m_sFilename = << "a", ".", "f", "l", "a", "c" >>
        /\ m_nSampleDepth = 24
        /\ thread[w].format = 1507331


\* C19: when a thread has called sf_open or the callback, the transport has
\* been set to playing.
C19_PlayingBeforeOpenAndCallback ==
    \A w \in Threads :
        (thread[w].m_file # "none" \/ thread[w].nCalls > 0 \/ thread[w].chunks # << >>) =>
            engineState = "Playing"

\* the first callback of a thread that has opened its file
C19_Witness ==
    \E w \in Threads :
        /\ thread[w].m_file = "open"
        /\ thread[w].pc = "condition"
        /\ thread[w].nCalls = 1
        /\ Len(thread[w].chunks) = 1
        /\ engineState = "Playing"


\* a float within [-1, 1]
inUnitInterval(x) == x # NaN /\ -1 <= x /\ x <= 1

\* C20 (as claimed): after a chunk is conditioned, every sample of the
\* interleaved array lies in [-1, 1]; frame i has its left sample at 2i and
\* its right sample at 2i + 1 (from 0), a value above 1 written as 1, below
\* -1 as -1, a value within [-1, 1] unchanged.
C20_ClampedAndInterleaved ==
    \A w \in Threads :
        thread[w].pc = "write" =>
            LET t == thread[w]
                pData(i) == t.out[i + 1]
            IN  /\ Len(t.out) = 2 * t.usedBuffer
                /\ \A i \in 0..(t.usedBuffer - 1) :
                      \A ch \in {0, 1} :
                          LET x == IF ch = 0 THEN t.L[i + 1] ELSE t.R[i + 1]
                              o == pData(2 * i + ch)
                          IN  /\ inUnitInterval(o)
                              /\ (x # NaN /\ x > 1) => o = 1
                              /\ (x # NaN /\ x < -1) => o = -1
                              /\ inUnitInterval(x) => o = x


\* C21 (as claimed): the length in frames of a column is the integer part
\* of sampleRate * 60 * lengthInTicks / (bpm * resolution); 96 ticks at
\* resolution 48, bpm 120 and sample rate 48000 are 48000 frames.
C21_FramesAreExactFloor ==
    \A w \in Threads :
        thread[w].pc = "while" =>
            LET c == song[thread[w].patternPosition + 1]
                ticks == nPatternSize(c)
            IN  /\ thread[w].patternLengthInFrames =
                      (m_nSampleRate * 60 * ticks) \div (c.bpm * resolution)
                /\ (ticks = 96 /\ resolution = 48 /\ c.bpm = 120 /\ m_nSampleRate = 48000) =>
                      thread[w].patternLengthInFrames = 48000


\* C22 (as claimed): every chunk requested from the callback has a length
\* in 1..m_nBufferSize, every chunk that is not the last of its column has
\* length m_nBufferSize, and no chunk is read or written beyond the arrays.
C22_ChunkWithinBuffer ==
    \A w \in Threads :
        LET t == thread[w]
        IN  /\ \A i \in 1..Len(t.chunks) :
                  /\ t.chunks[i][3] >= 1
                  /\ t.chunks[i][3] <= m_nBufferSize
                  /\ \A j \in (i + 1)..Len(t.chunks) :
                        t.chunks[j][1] = t.chunks[i][1] => t.chunks[i][3] = m_nBufferSize
            /\ t.access # "overrun"


\* C23: a callback that returns non-zero is called again for the same chunk
\* of the same length, and a chunk is conditioned or written only after the
\* callback has returned 0 for it.
C23_RetryUntilZero ==
    [][\A w \in Threads :
          LET t == thread[w]
              u == thread'[w]
          IN  /\ (t.pc = "callback" /\ u.nCalls = t.nCalls + 1 /\ u.ret # 0) =>
                    /\ u.pc = "callback"
                    /\ u.usedBuffer = t.usedBuffer
                    /\ u.frameNumber = t.frameNumber
                    /\ u.patternPosition = t.patternPosition
                    /\ u.chunks = IF t.nCalls = 0 THEN Append(t.chunks, currentChunk(t))
                                  ELSE t.chunks
              /\ (u.pc \in {"condition", "write"} /\ t.pc # u.pc) =>
                    u.ret = 0 /\ u.nCalls >= 1
              /\ (u.out # t.out \/ u.written # t.written) =>
                    t.ret = 0 /\ t.nCalls >= 1]_vars

\* a chunk written after the callback was called twice for it
C23_Witness ==
    \E w \in Threads :
        /\ thread[w].pc = "while"
        /\ thread[w].nCalls = 2
        /\ thread[w].ret = 0
        /\ Len(thread[w].written) = 1
        /\ Len(thread[w].chunks) = 1


\* C24: a short write does not end the export.  The step that logs it goes
\* back to the head of the while loop, and a thread that finished after a
\* short write on its open file has requested and written every chunk of
\* every column, pushed every progress event and closed the file.
C24_ShortWriteDoesNotAbort ==
    [][\A w \in Threads :
          LET t == thread[w]
              u == thread'[w]
          IN  /\ (t.pc = "write" /\ u.pc # "write") => u.pc = "while"
              /\ (u.pc = "finished" /\ u.shortWrite /\ u.m_file # "null") =>
                    /\ u.m_file = "closed"
                    /\ Len(u.progress) = Len(song) + 1
                    /\ u.written = u.chunks
                    /\ \A c \in 0..(Len(song) - 1) :
                          SumLength(chunksOf(u, c)) = framesForGroup(c)]_vars

\* an export of two columns finished and closed after a short write
C24_Witness ==
    \E w \in Threads :
        /\ thread[w].pc = "finished"
        /\ thread[w].shortWrite
        /\ thread[w].m_file = "closed"
        /\ Len(song) = 2
        /\ thread[w].progress = << 0, 50, 100 >>
        /\ Len(thread[w].written) >= 2


\* C25 (as claimed): a thread whose file is open, with m_nBufferSize > 0 and
\* a callback that returns 0 after finitely many calls, is not halted before
\* it has been through every column, pushed the last progress event, closed
\* the file and exited.
C25_RenderGoesOnUntilFinished ==
    \A w \in Threads :
        (thread[w].m_file \in {"open", "closed"} /\ m_nBufferSize > 0) =>
            \/ /\ thread[w].pc \notin {"crashed", "failed"}
               /\ thread[w].m_file = "open"
            \/ /\ thread[w].pc = "finished"
               /\ thread[w].m_file = "closed"
               /\ Len(thread[w].progress) = Len(song) + 1


\* the chunks of column c a thread handed to sf_writef_float
writtenOf(t, c) == SelectSeq(t.written, LAMBDA ch : ch[1] = c)

\* C26: the progress event of a column is pushed after every chunk of the
\* column was requested and written, and before the first callback for the
\* next column.
C26_ProgressBetweenGroups ==
    \A w \in Threads :
        LET t == thread[w]
        IN  \A c \in 0..(Len(song) - 1) :
                /\ Len(t.progress) >= c + 2 =>
                      /\ SumLength(chunksOf(t, c)) = framesForGroup(c)
                      /\ t.m_file # "null" => writtenOf(t, c) = chunksOf(t, c)
                /\ (c >= 1 /\ chunksOf(t, c) # << >>) => Len(t.progress) >= c + 1

\* the event of the first column is pushed, no chunk of the second requested
C26_Witness ==
    \E w \in Threads :
        /\ Len(song) = 2
        /\ thread[w].progress = << 0, 50 >>
        /\ thread[w].m_file = "open"
        /\ chunksOf(thread[w], 0) # << >>
        /\ writtenOf(thread[w], 0) = chunksOf(thread[w], 0)
        /\ chunksOf(thread[w], 1) = << >>


\* C27: a column without patterns is not skipped.  Its length in frames is
\* that of MAX_NOTES ticks, not zero, and when its progress event is pushed
\* the callback has been called for chunks of that total length, each of
\* them handed to sf_writef_float.
C27_EmptyGroupHasFullLength ==
    \A c \in 0..(Len(song) - 1) :
        song[c + 1].patterns = {} =>
            LET frames == framesOf(computeTickSize(m_nSampleRate, song[c + 1].bpm, resolution),
                                   MAX_NOTES)
            IN  /\ frames > 0
                /\ \A w \in Threads :
                      LET t == thread[w]
                      IN  /\ (t.patternPosition = c
                              /\ t.pc \in {"while", "lastRun", "callback"}) =>
                                t.patternLengthInFrames = frames
                          /\ Len(t.progress) >= c + 2 =>
                                /\ chunksOf(t, c) # << >>
                                /\ SumLength(chunksOf(t, c)) = frames
                                /\ t.m_file = "open" => writtenOf(t, c) = chunksOf(t, c)

\* a finished export whose only column has no pattern: MAX_NOTES frames
C27_Witness ==
    \E w \in Threads :
        /\ Len(song) = 1
        /\ song[1].patterns = {}
        /\ song[1].bpm = 60
        /\ thread[w].pc = "finished"
        /\ thread[w].m_file = "closed"
        /\ SumLength(thread[w].written) = MAX_NOTES


\* C28: the length in frames of a column is a function of the tempo at that
\* column, the column's length in ticks, the sample rate and the resolution:
\* the tick size is computed anew for every column, and neither the tempo
\* nor the length of an earlier column enters.
C28_FramesFromOwnTempo ==
    \A w \in Threads :
        LET t == thread[w]
            framesAt(c) == framesOf(computeTickSize(m_nSampleRate, song[c + 1].bpm, resolution),
                                    nPatternSize(song[c + 1]))
        IN  /\ t.pc \in {"while", "lastRun", "callback", "condition", "write", "progress"} =>
                  t.patternLengthInFrames = framesAt(t.patternPosition)
            /\ \A c \in 0..(Len(song) - 1) :
                  Len(t.progress) >= c + 2 => SumLength(chunksOf(t, c)) = framesAt(c)

\* two columns of the same length at tempo 60 and 120: 3 frames, then 1
C28_Witness ==
    \E w \in Threads :
        /\ Len(song) = 2
        /\ song[1].patterns = song[2].patterns
        /\ song[1].bpm = 60 /\ song[2].bpm = 120
        /\ thread[w].pc = "finished"
        /\ SumLength(chunksOf(thread[w], 0)) = 3
        /\ SumLength(chunksOf(thread[w], 1)) = 1


\* C29 (as claimed): every call of the callback finds the transport playing,
\* whatever MIDI actions (PLAY, STOP, PAUSE, the two toggles) are handled
\* while the thread renders.
C29_PlayingAtEveryCallback ==
    [][\A w \in Threads :
          thread'[w].nCalls = thread[w].nCalls + 1 => engineState = "Playing"]_vars


\* a is the beginning of b
isPrefix(a, b) == Len(a) <= Len(b) /\ a = SubSeq(b, 1, Len(a))

\* the chunks of a column of frames frames at a buffer size of size > 0
chunksOfColumn(c, frames, size) ==
    [k \in 1..((frames + size - 1) \div size) |->
        << c, (k - 1) * size, IF k * size <= frames THEN size ELSE frames - (k - 1) * size >>]

\* the chunks of the columns c, c + 1, ... of the song, one after the other
RECURSIVE chunksFrom(_, _)
chunksFrom(c, size) ==
    IF c >= Len(song) THEN << >>
    ELSE chunksOfColumn(c, framesForGroup(c), size) \o chunksFrom(c + 1, size)

\* the progress events of a song of n columns
eventsOf(n) == [i \in 1..(n + 1) |-> IF i = 1 THEN 0 ELSE ((i - 1) * 100) \div n]

\* C30: the chunks a thread requests, the chunks it writes and the progress
\* events it pushes are the beginning of sequences that the song, its tempi,
\* the sample rate, the resolution and the buffer size determine, and the
\* whole of them when the thread has finished: they are the same for any
\* two exports of the same input, however often the callback returned
\* non-zero.
C30_RenderIsDeterministic ==
    LET requests == chunksFrom(0, m_nBufferSize)
        events == eventsOf(Len(song))
    IN  \A w \in Threads :
            LET t == thread[w]
            IN  /\ isPrefix(t.progress, events)
                /\ isPrefix(t.written, t.chunks)
                /\ t.m_file = "open" => Len(t.written) >= Len(t.chunks) - 1
                /\ (m_nBufferSize > 0 /\ t.chunks # << >>) => isPrefix(t.chunks, requests)
                /\ (m_nBufferSize > 0 /\ t.pc = "finished" /\ t.m_file # "none") =>
                      /\ t.chunks = requests
                      /\ t.progress = events
                      /\ t.m_file = "closed" => t.written = t.chunks
                /\ m_nBufferSize = 0 =>
                      \A k \in 1..Len(t.chunks) : t.chunks[k][2] = 0 /\ t.chunks[k][3] = 0

\* a finished export of a column of two chunks, the second requested twice
C30_Witness ==
    \E w \in Threads :
        /\ thread[w].pc = "finished"
        /\ thread[w].m_file = "closed"
        /\ m_nBufferSize = 2
        /\ Len(song) = 1
        /\ thread[w].chunks = << << 0, 0, 2 >>, << 0, 2, 1 >> >>
        /\ thread[w].written = thread[w].chunks
        /\ thread[w].nCalls = 2



\* the left and the right channel of an interleaved array of n frames
leftOf(out, n) == [i \in 1..n |-> out[2 * i - 1]]
rightOf(out, n) == [i \in 1..n |-> out[2 * i]]

\* C31: conditioning the conditioned chunk again yields the same chunk, and
\* a sample that the callback rendered as exactly 1 or -1 is in the
\* interleaved array as it was rendered.
C31_ClampIsIdempotent ==
    \A w \in Threads :
        thread[w].pc = "write" =>
            LET t == thread[w]
                n == t.usedBuffer
            IN  /\ interleaved(leftOf(t.out, n), rightOf(t.out, n), n) = t.out
                /\ \A i \in 1..n :
                      /\ clamped(clamped(t.L[i])) = clamped(t.L[i])
                      /\ clamped(clamped(t.R[i])) = clamped(t.R[i])
                      /\ t.L[i] \in {1, -1} => t.out[2 * i - 1] = t.L[i]
                      /\ t.R[i] \in {1, -1} => t.out[2 * i] = t.R[i]

\* a conditioned chunk of two frames: one sample clipped from above, one
\* from below, one at full scale and one at minus full scale
C31_Witness ==
    \E w \in Threads :
        /\ thread[w].pc = "write"
        /\ thread[w].usedBuffer = 2
        /\ thread[w].L = << 2, 1 >>
        /\ thread[w].R = << -2, -1 >>
        /\ thread[w].out = << 1, -1, 1, -1 >>



\* the step is one call of handleAction
isHandled == handled'.n = handled.n + 1

\* C32: handleAction returns false and calls no handler, so that nothing
\* changes, when the action is null or its type is not in actionMap; for a
\* type in actionMap it calls the one handler the map has for the type (STOP
\* stops the transport and relocates it to column 0, PAUSE stops it where it
\* is) and returns what the handler returns.
C32_DispatchByType ==
    [][isHandled =>
          IF handled'.null \/ handled'.type \notin DOMAIN actionMap
          THEN /\ handled'.result = FALSE
               /\ handled'.invoked = << >>
               /\ UNCHANGED << engineState, transportVars, tempoVars, instrumentVars >>
          ELSE /\ handled'.invoked = << actionMap[handled'.type] >>
               /\ handled'.result = returned(actionMap[handled'.type])
               /\ handled'.type = "STOP" => engineState' = "Ready" /\ transportColumn' = 0
               /\ handled'.type = "PAUSE" =>
                     engineState' = "Ready" /\ transportColumn' = transportColumn]_vars

\* an action of a type that is not registered was refused after STOP was handled
C32_Witness ==
    /\ handled.n = 2
    /\ handled.type = "NOTE"
    /\ handled.invoked = << >>
    /\ handled.result = FALSE
    /\ engineState = "Ready"
    /\ transportColumn = 0


\* C33: a toggle action starts the transport when the engine is Ready and
\* stops it when the engine is Playing; the position becomes column 0 only
\* when PLAY/STOP_TOGGLE stops the transport, and stays what it was in every
\* other case; in any other engine state neither changes.
C33_ToggleStartsAndStops ==
    [][(isHandled /\ handled'.invoked = << "play_stop_pause_toggle" >>) =>
          CASE engineState = "Ready" ->
                  engineState' = "Playing" /\ transportColumn' = transportColumn
            [] engineState = "Playing" ->
                  /\ engineState' = "Ready"
                  /\ transportColumn' = IF handled'.type = "PLAY/STOP_TOGGLE"
                                        THEN 0 ELSE transportColumn
            [] OTHER ->
                  engineState' = engineState /\ transportColumn' = transportColumn]_vars

\* PLAY/PAUSE_TOGGLE has stopped the transport at column 2
C33_Witness ==
    /\ handled.n = 1
    /\ handled.type = "PLAY/PAUSE_TOGGLE"
    /\ handled.invoked = << "play_stop_pause_toggle" >>
    /\ engineState = "Ready"
    /\ transportColumn = 2


\* C34 (as claimed): whatever BPM_CC_RELATIVE actions with multiplier 1 are
\* handled, a song tempo that starts within [40, 300] stays within [40, 300].
C34_TempoWithinLimits == 40 <= m_fBpm /\ m_fBpm <= 300


\* C35 (as claimed): after SELECT_INSTRUMENT, whatever the value of the
\* action, the selected instrument number is an index of the instrument
\* list, 0 <= number <= size - 1, when the list is not empty.
C35_SelectedInstrumentIsValid ==
    (handled.invoked = << "select_instrument" >> /\ nInstruments > 0) =>
        (0 <= nSelectedInstrumentNumber /\ nSelectedInstrumentNumber <= nInstruments - 1)

====
